---- MODULE Spec2Model ----
(***************************************************************************)
(* Drift-scoring core of backend/drift_detection/metrics.py: the three     *)
(* metric functions (PSI, Kolmogorov-Smirnov, Wasserstein) and the score   *)
(* combiner.                                                               *)
(*                                                                         *)
(* Numbers.  A Python float is modelled as an integer count of millionths  *)
(* (Scale).  Sample values are small integers.  Weights are integer tenths *)
(* (WeightScale).  Divisions round towards minus infinity; apart from that *)
(* the arithmetic is exact, so floating-point rounding is not modelled.    *)
(* scipy's ks_2samp and wasserstein_distance are modelled by what they     *)
(* compute on small samples (ks_2samp: two-sided, exact p-value).          *)
(***************************************************************************)
EXTENDS Integers, Sequences, FiniteSets, TLC

\* ------------------------------------------------------------------ bounds
MaxLen == 3
MaxVal == 2
MaxBins == 3
MaxWeight == 4
MaxHistory == 2
MaxConfidences == 3
MaxFields == 2
MaxLogs == 2

\* ------------------------------------------------------- number encoding
Scale == 10^6
WeightScale == 10

\* ------------------------------------------------------ program constants
DefaultBins == 10
PsiCap == [num |-> 1, den |-> 2]
KsAlpha == 50000
KsHighlySignificantBelow == 10000
LnEpsilon == -23025851
StableBelow == 200000
WarningBelow == 400000
ModerateBelow == 600000
PsiNoChangeBelow == 100000
PsiModerateBelow == 250000
WassersteinMinimalBelow == 100000
WassersteinModerateBelow == 300000
DefaultWeights == [psi |-> 4, ks |-> 3, wasserstein |-> 3]
PsiDetectorStableBelow == 100000
PsiDetectorWarningBelow == 250000
KsDetectorCriticalBelow == 10000
KsDetectorWarningBelow == 50000
KsDetectorDefaultPValue == 1000000
WassersteinDetectorStableBelow == 100000
WassersteinDetectorWarningBelow == 300000
DefaultDetectorArgs == [psi |-> 250000, ks |-> 50000, wasserstein |-> 300000]

\* ----------------------------------------------------------------- state
\* expected, actual: the two samples the caller holds
\* call: the function the caller has called, with its extra arguments
\* result: what that call returned (raised: it raised instead)
VARIABLES expected, actual, call, result

\* history[d]: the history list of detector d (one instance of each class)
\* detector_args[d]: the threshold or alpha given to the constructor of d
\* memo: the first metric call of the run and what it returned
VARIABLES history, detector_args, memo

\* baseline_df, current_df: for each category of the analysed feature, the
\* target-column values of the rows of that category (empty: no such rows)
VARIABLES baseline_df, current_df

\* the three fields of the ConfidenceAnalyzer instance
VARIABLES baseline_confidences, current_confidences, confidence_threshold
\* self.baseline_confidences is self.current_confidences: the two attributes
\* name one list object
VARIABLES baseline_is_current
VARIABLES prediction_logs

callerVars == <<expected, actual, call, result>>
detectorVars == <<history, detector_args, memo>>
subgroupVars == <<baseline_df, current_df>>
confidenceVars ==
    <<baseline_confidences, current_confidences, confidence_threshold, baseline_is_current>>
appVars == <<prediction_logs>>
vars == <<callerVars, detectorVars, subgroupVars, confidenceVars, appVars>>

\* --------------------------------------------------------------- inputs
\* A sample is a list of at most MaxLen values.  The metrics only take the
\* minimum and maximum, count values per bin and sort, so a sample stands
\* for all its reorderings and is drawn in non-decreasing order.
Values == 0..MaxVal
Samples ==
    {s \in UNION {[1..n -> Values] : n \in 0..MaxLen} :
        \A i \in 1..(Len(s) - 1) : s[i] <= s[i + 1]}
BinChoices == (1..MaxBins) \cup {DefaultBins}
WeightValues == {0, MaxWeight}
WeightMaps == [psi : WeightValues, ks : WeightValues, wasserstein : WeightValues]

\* --------------------------------------------------------------- helpers
RECURSIVE SeqSum(_)
SeqSum(s) == IF s = <<>> THEN 0 ELSE Head(s) + SeqSum(Tail(s))

SeqMin(s) == CHOOSE x \in {s[i] : i \in DOMAIN s} : \A j \in DOMAIN s : x <= s[j]
SeqMax(s) == CHOOSE x \in {s[i] : i \in DOMAIN s} : \A j \in DOMAIN s : x >= s[j]
Min2(a, b) == IF a <= b THEN a ELSE b
Max2(a, b) == IF a >= b THEN a ELSE b
Abs(x) == IF x < 0 THEN -x ELSE x

SetMax(S) == CHOOSE x \in S : \A y \in S : x >= y

\* np.log of a positive integer, in millionths
LnTab == <<0, 693147, 1098612, 1386294, 1609438, 1791759, 1945910, 2079442>>

\* np.log(count / total + epsilon): the epsilon decides the value only when
\* the bin is empty; otherwise it is below the resolution of Scale
LnPct(count, total) ==
    IF count = 0 THEN LnEpsilon ELSE LnTab[count] - LnTab[total]

\* ------------------------------------------------------------------- PSI
\* index of the bin of np.linspace(lo - epsilon, hi + epsilon, bins + 1) that
\* np.histogram puts v in (bins are half-open, the last one closed)
BinIndex(v, lo, hi, nbins) ==
    LET R == hi - lo
        d == v - lo
    IN  IF R = 0 THEN nbins \div 2
        ELSE LET q == (d * nbins) \div R
                 r == (d * nbins) % R
             IN  IF r = 0 /\ 2 * d > R THEN q - 1 ELSE q

\* np.histogram(sample, bins=bin_edges)[0][i], bins numbered from 0
BinCount(s, lo, hi, nbins, i) ==
    Cardinality({k \in DOMAIN s : BinIndex(s[k], lo, hi, nbins) = i})

\* variant: the difference taken the other way round
PsiTermSwapped(ec, en, ac, an) ==
    ((ec * an - ac * en) * (LnPct(ac, an) - LnPct(ec, en))) \div (an * en)

\* (actual_pct - expected_pct) * np.log(actual_pct / expected_pct) of one bin
PsiTerm(ec, en, ac, an) ==
    ((ac * en - ec * an) * (LnPct(ac, an) - LnPct(ec, en))) \div (an * en)

_interpret_psi(psi) ==
    IF psi < PsiNoChangeBelow THEN "No significant change"
    ELSE IF psi < PsiModerateBelow THEN "Moderate change - monitoring recommended"
    ELSE "Significant change - investigation required"

\* variant: the empty-sample return without its error marker
EmptyResultNoMarker ==
    [raised |-> FALSE, value |-> 0, details |-> <<>>]

\* return 0.0, {"error": "Empty arrays provided"}
EmptyResult ==
    [raised |-> FALSE, value |-> 0, details |-> [error |-> "Empty arrays provided"]]

\* expected_counts, _ = np.histogram(expected, bins=bin_edges)
ExpectedCounts(e, lo, hi, nbins) == [i \in 1..nbins |-> BinCount(e, lo, hi, nbins, i - 1)]

\* variant: the histogram of the current sample read one bin too far
ActualCountsOffByOne(a, lo, hi, nbins) == [i \in 1..nbins |-> BinCount(a, lo, hi, nbins, i)]

\* actual_counts, _ = np.histogram(actual, bins=bin_edges)
ActualCounts(a, lo, hi, nbins) == [i \in 1..nbins |-> BinCount(a, lo, hi, nbins, i - 1)]

calculate_psi(e, a, nbins) ==
    IF Len(e) = 0 \/ Len(a) = 0
    THEN EmptyResult
    ELSE LET min_val == Min2(SeqMin(e), SeqMin(a))
             max_val == Max2(SeqMax(e), SeqMax(a))
             expected_counts == ExpectedCounts(e, min_val, max_val, nbins)
             actual_counts == ActualCounts(a, min_val, max_val, nbins)
             psi_values == [i \in 1..nbins |->
                               PsiTerm(expected_counts[i], Len(e), actual_counts[i], Len(a))]
             psi == SeqSum(psi_values)
         IN  [raised |-> FALSE,
              value |-> psi,
              details |-> [total_psi |-> psi,
                           bins |-> [i \in 1..nbins |->
                                        [expected_count |-> expected_counts[i],
                                         actual_count |-> actual_counts[i],
                                         psi_contribution |-> psi_values[i]]],
                           interpretation |-> _interpret_psi(psi)]]

\* -------------------------------------------------------------------- KS
\* np.searchsorted(np.sort(s), x, side='right'): how many elements are <= x
CountLE(s, x) == Cardinality({k \in DOMAIN s : s[k] <= x})

AllValues(e, a) == {e[k] : k \in DOMAIN e} \cup {a[k] : k \in DOMAIN a}

\* n1 * n2 * (cdf1 - cdf2) at the data point x
CdfDiff(e, a, x) == CountLE(e, x) * Len(a) - CountLE(a, x) * Len(e)

\* number of lattice paths from (i, j) to (n1, n2) that reach
\* |i / n1 - j / n2| >= h / (n1 * n2) somewhere (hit: already reached)
RECURSIVE PathsOutside(_, _, _, _, _, _)
PathsOutside(i, j, n1, n2, h, hit) ==
    LET now == hit \/ Abs(i * n2 - j * n1) >= h
    IN  IF i = n1 /\ j = n2 THEN (IF now THEN 1 ELSE 0)
        ELSE (IF i < n1 THEN PathsOutside(i + 1, j, n1, n2, h, now) ELSE 0)
           + (IF j < n2 THEN PathsOutside(i, j + 1, n1, n2, h, now) ELSE 0)

RECURSIVE Binomial(_, _)
Binomial(n, k) == IF k = 0 \/ k = n THEN 1 ELSE Binomial(n - 1, k - 1) + Binomial(n - 1, k)

\* variant: the one-sided statistic max(cdf1 - cdf2)
KsOneSided(e, a) ==
    LET n1 == Len(e)
        n2 == Len(a)
        h == SetMax({CdfDiff(e, a, x) : x \in AllValues(e, a)})
    IN  [statistic |-> (h * Scale) \div (n1 * n2),
         pvalue |-> IF h = 0 THEN Scale
                    ELSE (PathsOutside(0, 0, n1, n2, h, FALSE) * Scale)
                             \div Binomial(n1 + n2, n1)]

\* scipy.stats.ks_2samp(e, a): two-sided statistic and exact p-value
ks_2samp(e, a) ==
    LET n1 == Len(e)
        n2 == Len(a)
        cddiffs == {CdfDiff(e, a, x) : x \in AllValues(e, a)}
        minS == Max2(0, SetMax({-c : c \in cddiffs}))
        maxS == SetMax(cddiffs)
        h == Max2(minS, maxS)
    IN  [statistic |-> (h * Scale) \div (n1 * n2),
         pvalue |-> IF h = 0 THEN Scale
                    ELSE (PathsOutside(0, 0, n1, n2, h, FALSE) * Scale)
                             \div Binomial(n1 + n2, n1)]

_interpret_ks(statistic, p_value) ==
    IF p_value < KsHighlySignificantBelow THEN "Highly significant difference"
    ELSE IF p_value < KsAlpha THEN "Significant difference"
    ELSE "No significant difference"

\* variant: the statistic drifts with the number of reports the KS detector
\* has made so far
KsStatisticCountingReports(e, a) ==
    IF Len(e) = 0 \/ Len(a) = 0
    THEN EmptyResult
    ELSE LET ks == ks_2samp(e, a)
             seen == Len(history.ks)
         IN  [raised |-> FALSE,
              value |-> ks.statistic + seen,
              details |-> [ks_statistic |-> ks.statistic + seen,
                           p_value |-> ks.pvalue,
                           is_significant |-> ks.pvalue < KsAlpha,
                           interpretation |-> _interpret_ks(ks.statistic, ks.pvalue)]]

calculate_ks_statistic(e, a) ==
    IF Len(e) = 0 \/ Len(a) = 0
    THEN EmptyResult
    ELSE LET ks == ks_2samp(e, a)
         IN  [raised |-> FALSE,
              value |-> ks.statistic,
              details |-> [ks_statistic |-> ks.statistic,
                           p_value |-> ks.pvalue,
                           is_significant |-> ks.pvalue < KsAlpha,
                           interpretation |-> _interpret_ks(ks.statistic, ks.pvalue)]]

\* ----------------------------------------------------------- Wasserstein
\* scipy.stats.wasserstein_distance(e, a): the sum over consecutive sorted
\* data points of |cdf1 - cdf2| times the gap to the next point
wasserstein_distance(e, a) ==
    LET all == AllValues(e, a)
        top == SetMax(all)
        next(x) == CHOOSE y \in all : y > x /\ \A z \in all : z > x => y <= z
        area(x) == Abs(CdfDiff(e, a, x)) * (next(x) - x)
        RECURSIVE Total(_)
        Total(S) == IF S = {} THEN 0
                    ELSE LET x == CHOOSE y \in S : TRUE
                         IN  area(x) + Total(S \ {x})
    IN  (Total(all \ {top}) * Scale) \div (Len(e) * Len(a))

_interpret_wasserstein(normalized) ==
    IF normalized < WassersteinMinimalBelow THEN "Minimal distribution shift"
    ELSE IF normalized < WassersteinModerateBelow THEN "Moderate distribution shift"
    ELSE "Significant distribution shift"

\* variant: the division without its guard, which fails on a zero range
NormalizeByRangeUnguarded(distance, value_range) ==
    IF value_range = 0
    THEN [raised |-> TRUE, normalized |-> 0]
    ELSE [raised |-> FALSE, normalized |-> distance \div value_range]

\* normalized = distance / value_range if value_range > 0 else 0.0
NormalizeByRange(distance, value_range) ==
    IF value_range > 0
    THEN [raised |-> FALSE, normalized |-> distance \div value_range]
    ELSE [raised |-> FALSE, normalized |-> 0]

calculate_wasserstein(e, a) ==
    IF Len(e) = 0 \/ Len(a) = 0
    THEN EmptyResult
    ELSE LET distance == wasserstein_distance(e, a)
             value_range == SeqMax(e) - SeqMin(e)
             n == NormalizeByRange(distance, value_range)
         IN  IF n.raised THEN [raised |-> TRUE]
             ELSE [raised |-> FALSE,
                   value |-> distance,
                   details |-> [wasserstein_distance |-> distance,
                                normalized |-> n.normalized,
                                interpretation |-> _interpret_wasserstein(n.normalized)]]

\* -------------------------------------------------------- score combiner
\* variant: the thresholds compared with <= instead of <
GetDriftLevelInclusive(score) ==
    IF score <= StableBelow THEN "STABLE"
    ELSE IF score <= WarningBelow THEN "WARNING"
    ELSE IF score <= ModerateBelow THEN "MODERATE"
    ELSE "CRITICAL"

_get_drift_level(score) ==
    IF score < StableBelow THEN "STABLE"
    ELSE IF score < WarningBelow THEN "WARNING"
    ELSE IF score < ModerateBelow THEN "MODERATE"
    ELSE "CRITICAL"

\* min(psi_value / 0.5, 1.0)
NormalizePsi(psi_value) == Min2((psi_value * PsiCap.den) \div PsiCap.num, Scale)

\* wasserstein_details.get("normalized", 0)
GetNormalized(details) ==
    IF "normalized" \in DOMAIN details THEN details.normalized ELSE 0

\* variant: the Wasserstein term subtracted instead of added
CombinedScoreMinus(w, psi_normalized, ks_normalized, wasserstein_normalized) ==
    (w.psi * psi_normalized + w.ks * ks_normalized
        - w.wasserstein * wasserstein_normalized) \div WeightScale

\* weights["psi"] * psi_normalized + weights["ks"] * ks_normalized
\*   + weights["wasserstein"] * wasserstein_normalized
CombinedScore(w, psi_normalized, ks_normalized, wasserstein_normalized) ==
    (w.psi * psi_normalized + w.ks * ks_normalized
        + w.wasserstein * wasserstein_normalized) \div WeightScale

\* the weights argument: None, or a map from metric name to weight
NoWeights == [none |-> TRUE]
\* variant: a supplied weight map is ignored
EffectiveWeightsIgnoringMap(w) == DefaultWeights

EffectiveWeights(w) == IF w = NoWeights THEN DefaultWeights ELSE w

calculate_drift_score(e, a, w) ==
    LET used == EffectiveWeights(w)
        p == calculate_psi(e, a, DefaultBins)
        k == calculate_ks_statistic(e, a)
        ws == calculate_wasserstein(e, a)
    IN  IF p.raised \/ k.raised \/ ws.raised THEN [raised |-> TRUE]
        ELSE LET psi_normalized == NormalizePsi(p.value)
                 ks_normalized == k.value
                 wasserstein_normalized == GetNormalized(ws.details)
                 combined_score == CombinedScore(used, psi_normalized, ks_normalized,
                                                 wasserstein_normalized)
             IN  [raised |-> FALSE,
                  drift_score |-> combined_score,
                  drift_level |-> _get_drift_level(combined_score),
                  metrics |-> [psi |-> [value |-> p.value,
                                        normalized |-> psi_normalized,
                                        details |-> p.details],
                               ks_statistic |-> [value |-> k.value,
                                                 normalized |-> ks_normalized,
                                                 details |-> k.details],
                               wasserstein |-> [value |-> ws.value,
                                                normalized |-> wasserstein_normalized,
                                                details |-> ws.details]]]

\* ------------------------------------------------- the metric functions
NoCall == [fn |-> "none"]
NoResult == [raised |-> FALSE]

\* the parts of the state a specification does not use stay as constructed
Detectors == {"psi", "ks", "wasserstein"}
NoHistory == [d \in Detectors |-> <<>>]
NoMemo == [call |-> NoCall]
IdleDetectors ==
    /\ history = NoHistory
    /\ detector_args = DefaultDetectorArgs
    /\ memo = NoMemo

Categories == {"A", "B", "C"}
NoRows == [c \in Categories |-> <<>>]
IdleSubgroups ==
    /\ baseline_df = NoRows
    /\ current_df = NoRows

IdleApp == prediction_logs = <<>>

IdleConfidence ==
    /\ baseline_confidences = <<>>
    /\ current_confidences = <<>>
    /\ confidence_threshold = 1
    /\ baseline_is_current = FALSE

Init ==
    /\ expected \in Samples
    /\ actual \in Samples
    /\ call = NoCall
    /\ result = NoResult
    /\ IdleApp
    /\ IdleDetectors
    /\ IdleSubgroups
    /\ IdleConfidence

CallPsi ==
    \E b \in BinChoices :
        /\ call = NoCall
        /\ call' = [fn |-> "calculate_psi", bins |-> b]
        /\ result' = calculate_psi(expected, actual, b)
        /\ UNCHANGED <<expected, actual, detectorVars, subgroupVars, confidenceVars, appVars>>

CallKs ==
    /\ call = NoCall
    /\ call' = [fn |-> "calculate_ks_statistic"]
    /\ result' = calculate_ks_statistic(expected, actual)
    /\ UNCHANGED <<expected, actual, detectorVars, subgroupVars, confidenceVars, appVars>>

CallWasserstein ==
    /\ call = NoCall
    /\ call' = [fn |-> "calculate_wasserstein"]
    /\ result' = calculate_wasserstein(expected, actual)
    /\ UNCHANGED <<expected, actual, detectorVars, subgroupVars, confidenceVars, appVars>>

CallDriftScore ==
    \E w \in WeightMaps \cup {NoWeights} :
        /\ call = NoCall
        /\ call' = [fn |-> "calculate_drift_score", weights |-> w]
        /\ result' = calculate_drift_score(expected, actual, w)
        /\ UNCHANGED <<expected, actual, detectorVars, subgroupVars, confidenceVars, appVars>>

\* the caller is done with the result and may call again
Return ==
    /\ call # NoCall
    /\ call' = NoCall
    /\ result' = NoResult
    /\ UNCHANGED <<expected, actual, detectorVars, subgroupVars, confidenceVars, appVars>>

Next == CallPsi \/ CallKs \/ CallWasserstein \/ CallDriftScore \/ Return

Spec == Init /\ [][Next]_vars

\* ------------------------------------------------------------- detectors
\* largest r with r * r <= n
ISqrt(n) ==
    LET RECURSIVE Search(_, _)
        Search(lo, hi) ==
            IF lo = hi THEN lo
            ELSE LET mid == (lo + hi + 1) \div 2
                 IN  IF mid * mid <= n THEN Search(mid, hi) ELSE Search(lo, mid - 1)
    IN  Search(0, 46340)

\* the k-th smallest element of a non-empty list, k from 1
KthSmallest(s, k) ==
    CHOOSE v \in {s[i] : i \in DOMAIN s} :
        Cardinality({i \in DOMAIN s : s[i] < v}) < k /\ k <= CountLE(s, v)

\* np.median
Median(s) ==
    LET n == Len(s)
    IN  IF n % 2 = 1 THEN KthSmallest(s, (n + 1) \div 2) * Scale
        ELSE ((KthSmallest(s, n \div 2) + KthSmallest(s, n \div 2 + 1)) * Scale) \div 2

\* _calculate_stats of the three detector classes; np.min of an empty array
\* raises ValueError (np.mean and np.std only warn)
_calculate_stats(data) ==
    IF Len(data) = 0 THEN [raised |-> TRUE]
    ELSE LET n == Len(data)
             total == SeqSum(data)
             squares == SeqSum([i \in DOMAIN data |-> data[i] * data[i]])
         IN  [raised |-> FALSE,
              mean |-> (total * Scale) \div n,
              std |-> (ISqrt((n * squares - total * total) * Scale) * 1000) \div n,
              min |-> SeqMin(data) * Scale,
              max |-> SeqMax(data) * Scale,
              median |-> Median(data)]

\* DriftReport(...); the timestamp, a reading of the wall clock, is left out
DriftReport(feature_name, drift_score, drift_level, metrics, baseline_stats, current_stats, baseline, current) ==
    [feature_name |-> feature_name,
     drift_score |-> drift_score,
     drift_level |-> drift_level,
     metrics |-> metrics,
     baseline_stats |-> [f \in DOMAIN baseline_stats \ {"raised"} |-> baseline_stats[f]],
     current_stats |-> [f \in DOMAIN current_stats \ {"raised"} |-> current_stats[f]],
     sample_sizes |-> [baseline |-> Len(baseline), current |-> Len(current)]]

\* variant: the WARNING band ends at the threshold given to the constructor
PsiLevelFromThreshold(self_threshold, psi_value) ==
    IF psi_value < PsiDetectorStableBelow THEN "STABLE"
    ELSE IF psi_value < self_threshold THEN "WARNING"
    ELSE "CRITICAL"

\* the level chosen by PSIDetector.detect; self.threshold is not read
PsiLevel(self_threshold, psi_value) ==
    IF psi_value < PsiDetectorStableBelow THEN "STABLE"
    ELSE IF psi_value < PsiDetectorWarningBelow THEN "WARNING"
    ELSE "CRITICAL"

\* the level chosen by KSDetector.detect; self.alpha is not read
KsLevel(self_alpha, p_value) ==
    IF p_value < KsDetectorCriticalBelow THEN "CRITICAL"
    ELSE IF p_value < KsDetectorWarningBelow THEN "WARNING"
    ELSE "STABLE"

\* the level chosen by WassersteinDetector.detect; self.threshold is not read
WassersteinLevel(self_threshold, normalized) ==
    IF normalized < WassersteinDetectorStableBelow THEN "STABLE"
    ELSE IF normalized < WassersteinDetectorWarningBelow THEN "WARNING"
    ELSE "CRITICAL"

\* ks_details.get("p_value", 1.0)
GetPValue(details) ==
    IF "p_value" \in DOMAIN details THEN details.p_value ELSE KsDetectorDefaultPValue

PSIDetector_detect(self_threshold, baseline, current, feature_name) ==
    LET m == calculate_psi(baseline, current, DefaultBins)
        baseline_stats == _calculate_stats(baseline)
        current_stats == _calculate_stats(current)
    IN  IF m.raised \/ baseline_stats.raised \/ current_stats.raised
        THEN [raised |-> TRUE]
        ELSE [raised |-> FALSE,
              report |-> DriftReport(feature_name, m.value,
                                     PsiLevel(self_threshold, m.value),
                                     [psi |-> m.details],
                                     baseline_stats, current_stats, baseline, current)]

KSDetector_detect(self_alpha, baseline, current, feature_name) ==
    LET m == calculate_ks_statistic(baseline, current)
        baseline_stats == _calculate_stats(baseline)
        current_stats == _calculate_stats(current)
    IN  IF m.raised \/ baseline_stats.raised \/ current_stats.raised
        THEN [raised |-> TRUE]
        ELSE [raised |-> FALSE,
              report |-> DriftReport(feature_name, m.value,
                                     KsLevel(self_alpha, GetPValue(m.details)),
                                     [ks |-> m.details],
                                     baseline_stats, current_stats, baseline, current)]

WassersteinDetector_detect(self_threshold, baseline, current, feature_name) ==
    LET m == calculate_wasserstein(baseline, current)
        baseline_stats == _calculate_stats(baseline)
        current_stats == _calculate_stats(current)
    IN  IF m.raised \/ baseline_stats.raised \/ current_stats.raised
        THEN [raised |-> TRUE]
        ELSE LET normalized == GetNormalized(m.details)
             IN  [raised |-> FALSE,
                  report |-> DriftReport(feature_name, normalized,
                                         WassersteinLevel(self_threshold, normalized),
                                         [wasserstein |-> m.details],
                                         baseline_stats, current_stats, baseline, current)]

\* variant: the history is replaced by the new report
HistoryReplace(h, report) == <<report>>

\* self.history.append(report)
HistoryAppend(h, report) == Append(h, report)

\* the samples the detectors are run on
DetectorPairs ==
    {<< <<0, 1>>, <<0, 1, 1>> >>,
     << <<0, 0, 0, 0, 0>>, <<1, 1, 1>> >>,
     << <<0, 0, 0, 0, 0>>, <<1, 1, 1, 1, 1>> >>,
     << <<>>, <<0, 1>> >>,
     << <<0, 1>>, <<>> >>,
     << <<>>, <<>> >>}

\* the constructor arguments: the defaults, which the HTTP module also
\* passes, or other values
DetectorArgChoices ==
    {DefaultDetectorArgs, [psi |-> 100000, ks |-> 10000, wasserstein |-> 100000]}

DefaultFeatureName == "unknown"

TotalHistory == Len(history.psi) + Len(history.ks) + Len(history.wasserstein)

InitDetectors ==
    /\ \E pair \in DetectorPairs : expected = pair[1] /\ actual = pair[2]
    /\ call = NoCall
    /\ result = NoResult
    /\ IdleApp
    /\ history = NoHistory
    /\ detector_args \in DetectorArgChoices
    /\ memo = NoMemo
    /\ IdleSubgroups
    /\ IdleConfidence

\* d.detect(baseline, actual) for the detector d of history key key, whose
\* outcome for each baseline is outcome[baseline]; the caller compares the
\* current sample with the baseline or with itself
Detect(key, fn, outcome) ==
    \E baseline \in {expected, actual} :
        /\ call = NoCall
        /\ TotalHistory < MaxHistory
        /\ call' = [fn |-> fn, baseline |-> baseline]
        /\ result' = outcome[baseline]
        /\ history' = IF outcome[baseline].raised THEN history
                      ELSE [history EXCEPT
                               ![key] = HistoryAppend(@, outcome[baseline].report)]
        /\ UNCHANGED <<expected, actual, detector_args, memo, subgroupVars, confidenceVars, appVars>>

DetectPsi ==
    Detect("psi", "PSIDetector.detect",
           [b \in {expected, actual} |->
               PSIDetector_detect(detector_args.psi, b, actual, DefaultFeatureName)])

DetectKs ==
    Detect("ks", "KSDetector.detect",
           [b \in {expected, actual} |->
               KSDetector_detect(detector_args.ks, b, actual, DefaultFeatureName)])

DetectWasserstein ==
    Detect("wasserstein", "WassersteinDetector.detect",
           [b \in {expected, actual} |->
               WassersteinDetector_detect(detector_args.wasserstein, b, actual,
                                          DefaultFeatureName)])

\* a metric function called between detector calls: calculate_psi, or the
\* combiner, whose result holds what each of the three metric functions
\* returned; memo keeps the first such call of the run, its result and the
\* number of reports made before it
Observe(c, r) ==
    /\ call = NoCall
    /\ call' = c
    /\ result' = r
    /\ memo' = IF memo = NoMemo
               THEN [call |-> c, result |-> r, reports_before |-> TotalHistory]
               ELSE memo
    /\ UNCHANGED <<expected, actual, history, detector_args, subgroupVars, confidenceVars, appVars>>

ObservePsi ==
    Observe([fn |-> "calculate_psi", bins |-> DefaultBins],
            calculate_psi(expected, actual, DefaultBins))

ObserveDriftScore ==
    Observe([fn |-> "calculate_drift_score", weights |-> NoWeights],
            calculate_drift_score(expected, actual, NoWeights))

NextDetectors ==
    \/ DetectPsi \/ DetectKs \/ DetectWasserstein
    \/ ObservePsi \/ ObserveDriftScore
    \/ Return

SpecDetectors == InitDetectors /\ [][NextDetectors]_vars

\* ------------------------------------------------------ SubgroupAnalyzer
\* A data frame is its target column grouped by the categorical feature: the
\* values of each category, <<>> for a category with no row.  The analyzer
\* is constructed with that one feature, a column of both frames.

\* set(baseline_groups.groups.keys()) | set(current_groups.groups.keys())
AllCategories(b_df, c_df) ==
    {c \in DOMAIN b_df : b_df[c] # <<>>} \cup {c \in DOMAIN c_df : c_df[c] # <<>>}

\* the mean, std and count kept for each side of an analyzed subgroup
SubgroupStats(data) ==
    LET n == Len(data)
        total == SeqSum(data)
        squares == SeqSum([i \in DOMAIN data |-> data[i] * data[i]])
    IN  [mean |-> (total * Scale) \div n,
         std |-> (ISqrt((n * squares - total * total) * Scale) * 1000) \div n,
         count |-> n]

\* the entry of one category in subgroups
SubgroupEntry(baseline_data, current_data) ==
    IF Len(baseline_data) = 0 \/ Len(current_data) = 0
    THEN [status |-> "MISSING_DATA",
          baseline_count |-> Len(baseline_data),
          current_count |-> Len(current_data)]
    ELSE LET drift_result == calculate_drift_score(baseline_data, current_data, NoWeights)
         IN  [status |-> "ANALYZED",
              drift_score |-> drift_result.drift_score,
              drift_level |-> drift_result.drift_level,
              baseline_stats |-> SubgroupStats(baseline_data),
              current_stats |-> SubgroupStats(current_data),
              metrics |-> drift_result.metrics]

\* the sum of f[x] over the set S
RECURSIVE SumOver(_, _)
SumOver(f, S) ==
    IF S = {} THEN 0
    ELSE LET x == CHOOSE y \in S : TRUE
         IN  f[x] + SumOver(f, S \ {x})

\* variant: the average is taken over all subgroups, the missing ones
\* counting as score 0
SummarizeOverAllSubgroups(subgroups) ==
    LET analyzed == {c \in DOMAIN subgroups : subgroups[c].status = "ANALYZED"}
        drift_scores == [c \in analyzed |-> subgroups[c].drift_score]
        LevelCount(level) ==
            Cardinality({c \in analyzed : subgroups[c].drift_level = level})
    IN  IF analyzed = {}
        THEN [total_subgroups |-> Cardinality(DOMAIN subgroups), analyzed |-> 0]
        ELSE [total_subgroups |-> Cardinality(DOMAIN subgroups),
              analyzed |-> Cardinality(analyzed),
              avg_drift_score |->
                  SumOver(drift_scores, analyzed) \div Cardinality(DOMAIN subgroups),
              max_drift_score |-> SetMax({drift_scores[c] : c \in analyzed}),
              critical_count |-> LevelCount("CRITICAL"),
              warning_count |-> LevelCount("WARNING"),
              stable_count |-> LevelCount("STABLE")]

_summarize_subgroups(subgroups) ==
    LET analyzed == {c \in DOMAIN subgroups : subgroups[c].status = "ANALYZED"}
        drift_scores == [c \in analyzed |-> subgroups[c].drift_score]
        LevelCount(level) ==
            Cardinality({c \in analyzed : subgroups[c].drift_level = level})
    IN  IF analyzed = {}
        THEN [total_subgroups |-> Cardinality(DOMAIN subgroups), analyzed |-> 0]
        ELSE [total_subgroups |-> Cardinality(DOMAIN subgroups),
              analyzed |-> Cardinality(analyzed),
              avg_drift_score |-> SumOver(drift_scores, analyzed) \div Cardinality(analyzed),
              max_drift_score |-> SetMax({drift_scores[c] : c \in analyzed}),
              critical_count |-> LevelCount("CRITICAL"),
              warning_count |-> LevelCount("WARNING"),
              stable_count |-> LevelCount("STABLE")]

\* results[feature] of analyze_subgroups
analyze_subgroups(b_df, c_df) ==
    LET subgroups == [c \in AllCategories(b_df, c_df) |-> SubgroupEntry(b_df[c], c_df[c])]
    IN  [raised |-> FALSE,
         subgroups |-> subgroups,
         summary |-> _summarize_subgroups(subgroups)]

\* the rows of one category, baseline and current: absent from both frames,
\* from one of them, or present in both with a combined score that is
\* STABLE, WARNING, MODERATE or CRITICAL
SubgroupRows ==
    {<< <<>>, <<>> >>,
     << <<>>, <<0, 1>> >>,
     << <<0, 1>>, <<>> >>,
     << <<0, 1>>, <<0, 1>> >>,
     << <<0, 1>>, <<0, 0, 0, 1>> >>,
     << <<0, 0, 1>>, <<0, 1, 1>> >>,
     << <<0, 1>>, <<2>> >>}

InitSubgroups ==
    /\ expected = <<>>
    /\ actual = <<>>
    /\ call = NoCall
    /\ result = NoResult
    /\ IdleApp
    /\ IdleDetectors
    /\ IdleConfidence
    /\ \E rows \in [Categories -> SubgroupRows] :
          /\ baseline_df = [c \in Categories |-> rows[c][1]]
          /\ current_df = [c \in Categories |-> rows[c][2]]

AnalyzeSubgroups ==
    /\ call = NoCall
    /\ call' = [fn |-> "analyze_subgroups"]
    /\ result' = analyze_subgroups(baseline_df, current_df)
    /\ UNCHANGED <<expected, actual, detectorVars, subgroupVars, confidenceVars, appVars>>

NextSubgroups == AnalyzeSubgroups \/ Return

SpecSubgroups == InitSubgroups /\ [][NextSubgroups]_vars

\* ---------------------------------------------------- ConfidenceAnalyzer
\* Confidences and the threshold are in the units of the samples.
ConfidenceValues == {0, 1, 2}

\* the lists handed to set_baseline and add_predictions
ConfidenceLists ==
    {<<>>} \cup {<<v>> : v \in ConfidenceValues}
           \cup {<<v, w>> : v \in ConfidenceValues, w \in ConfidenceValues}

\* the confidence_threshold given to the constructor
ConfidenceThresholds == {1, 2}

\* variant: values equal to the threshold count as low confidence
LowConfidenceRateInclusive(data, threshold) ==
    (Cardinality({i \in DOMAIN data : data[i] <= threshold}) * Scale) \div Len(data)

\* np.mean(data < self.confidence_threshold)
LowConfidenceRate(data, threshold) ==
    (Cardinality({i \in DOMAIN data : data[i] < threshold}) * Scale) \div Len(data)

InsufficientData == [error |-> "Insufficient data for analysis"]

\* variant: a single current value is not enough to analyze
AnalyzeNeedingTwo(self_baseline, self_current, self_threshold) ==
    IF Len(self_baseline) = 0 \/ Len(self_current) <= 1
    THEN [raised |-> FALSE, analysis |-> InsufficientData]
    ELSE LET drift_result == calculate_drift_score(self_baseline, self_current, NoWeights)
             low_confidence_rate == LowConfidenceRate(self_current, self_threshold)
             baseline_low_conf == LowConfidenceRate(self_baseline, self_threshold)
             baseline_stats == SubgroupStats(self_baseline)
             current_stats == SubgroupStats(self_current)
         IN  [raised |-> FALSE,
              analysis |->
                  [drift_score |-> drift_result.drift_score,
                   drift_level |-> drift_result.drift_level,
                   metrics |-> drift_result.metrics,
                   confidence_metrics |->
                       [baseline_mean |-> baseline_stats.mean,
                        current_mean |-> current_stats.mean,
                        baseline_std |-> baseline_stats.std,
                        current_std |-> current_stats.std,
                        low_confidence_rate |-> low_confidence_rate,
                        baseline_low_confidence_rate |-> baseline_low_conf,
                        confidence_degradation |->
                            low_confidence_rate - baseline_low_conf]]]

ConfidenceAnalyzer_analyze(self_baseline, self_current, self_threshold) ==
    IF Len(self_baseline) = 0 \/ Len(self_current) = 0
    THEN [raised |-> FALSE, analysis |-> InsufficientData]
    ELSE LET drift_result == calculate_drift_score(self_baseline, self_current, NoWeights)
             low_confidence_rate == LowConfidenceRate(self_current, self_threshold)
             baseline_low_conf == LowConfidenceRate(self_baseline, self_threshold)
             baseline_stats == SubgroupStats(self_baseline)
             current_stats == SubgroupStats(self_current)
         IN  [raised |-> FALSE,
              analysis |->
                  [drift_score |-> drift_result.drift_score,
                   drift_level |-> drift_result.drift_level,
                   metrics |-> drift_result.metrics,
                   confidence_metrics |->
                       [baseline_mean |-> baseline_stats.mean,
                        current_mean |-> current_stats.mean,
                        baseline_std |-> baseline_stats.std,
                        current_std |-> current_stats.std,
                        low_confidence_rate |-> low_confidence_rate,
                        baseline_low_confidence_rate |-> baseline_low_conf,
                        confidence_degradation |->
                            low_confidence_rate - baseline_low_conf]]]

InitConfidence ==
    /\ expected = <<>>
    /\ actual = <<>>
    /\ call = NoCall
    /\ result = NoResult
    /\ IdleApp
    /\ IdleDetectors
    /\ IdleSubgroups
    /\ baseline_confidences = <<>>
    /\ current_confidences = <<>>
    /\ confidence_threshold \in ConfidenceThresholds
    /\ baseline_is_current = FALSE

\* set_baseline(confidences) with a list of the caller: the attribute is
\* bound to that list
SetBaseline ==
    \E confidences \in ConfidenceLists :
        /\ call = NoCall
        /\ baseline_confidences' = confidences
        /\ baseline_is_current' = FALSE
        /\ UNCHANGED <<callerVars, detectorVars, subgroupVars, appVars,
                       current_confidences, confidence_threshold>>

\* set_baseline(analyzer.current_confidences): the attribute is bound to the
\* list passed, no copy is made
SetBaselineToCurrent ==
    /\ call = NoCall
    /\ baseline_confidences' = current_confidences
    /\ baseline_is_current' = TRUE
    /\ UNCHANGED <<callerVars, detectorVars, subgroupVars, appVars,
                   current_confidences, confidence_threshold>>

\* variant: the batch replaces the current list
ExtendReplacing(list, confidences) == confidences

\* self.current_confidences.extend(confidences)
Extend(list, confidences) == list \o confidences

\* add_predictions(confidences); extend changes the list object in place,
\* under each name it has
AddPredictions ==
    \E confidences \in ConfidenceLists :
        /\ call = NoCall
        /\ Len(current_confidences) + Len(confidences) <= MaxConfidences
        /\ current_confidences' = Extend(current_confidences, confidences)
        /\ baseline_confidences' = IF baseline_is_current
                                   THEN Extend(current_confidences, confidences)
                                   ELSE baseline_confidences
        /\ UNCHANGED <<callerVars, detectorVars, subgroupVars, appVars,
                       confidence_threshold, baseline_is_current>>

\* reset_current(): the attribute is bound to a new empty list
ResetCurrent ==
    /\ call = NoCall
    /\ current_confidences' = <<>>
    /\ baseline_is_current' = FALSE
    /\ UNCHANGED <<callerVars, detectorVars, subgroupVars, appVars,
                   baseline_confidences, confidence_threshold>>

\* analyze()
Analyze ==
    /\ call = NoCall
    /\ call' = [fn |-> "ConfidenceAnalyzer.analyze"]
    /\ result' = ConfidenceAnalyzer_analyze(baseline_confidences, current_confidences,
                                            confidence_threshold)
    /\ UNCHANGED <<expected, actual, detectorVars, subgroupVars, confidenceVars, appVars>>

NextConfidence ==
    \/ SetBaseline \/ SetBaselineToCurrent \/ AddPredictions \/ ResetCurrent
    \/ Analyze \/ Return

SpecConfidence == InitConfidence /\ [][NextConfidence]_vars

\* ------------------------------------------------- the result normalizer
\* A Python value is a record with its kind: a tuple with its items, an
\* object with its __dict__ (the fields in insertion order, each a name and
\* a value), a dict, a float or None.  A field value has its type, and its
\* number v when it is an int (units), a float (millionths) or a bool (0, 1).

PreferredKeys ==
    <<"metric_value", "value", "drift_score", "statistic", "distance", "psi", "score">>

\* isinstance(x, (int, float)); bool is a subclass of int
IsNumber(x) == x.type \in {"int", "float", "bool"}

\* float(x)
ToFloat(x) ==
    [type |-> "float", v |-> IF x.type = "float" THEN x.v ELSE x.v * Scale]

\* the position of key in data, 0 when data has no such key
KeyIndex(data, key) ==
    IF \E i \in DOMAIN data : data[i].name = key
    THEN CHOOSE i \in DOMAIN data : data[i].name = key
    ELSE 0

\* the first loop of unpack_drift_result from the k-th preferred key on:
\* the position of the field it returns, 0 when it finds none
RECURSIVE FirstPreferred(_, _)
FirstPreferred(data, k) ==
    IF k > Len(PreferredKeys) THEN 0
    ELSE LET i == KeyIndex(data, PreferredKeys[k])
         IN  IF i # 0 /\ IsNumber(data[i].value) THEN i
             ELSE FirstPreferred(data, k + 1)

\* the second loop, from position i on
RECURSIVE FirstNumeric(_, _)
FirstNumeric(data, i) ==
    IF i > Len(data) THEN 0
    ELSE IF IsNumber(data[i].value) THEN i
    ELSE FirstNumeric(data, i + 1)

\* raise ValueError(f"Unsupported drift result type: ...")
Unsupported == [raised |-> TRUE, error |-> "ValueError"]

\* (float(v), data)
ScoreAndData(v, data) ==
    [raised |-> FALSE,
     value |-> [kind |-> "tuple",
                items |-> <<ToFloat(v), [kind |-> "dict", entries |-> data]>>]]

\* variant: the preferred names are not tried; the first numeric field of
\* the object is returned
UnpackFirstNumeric(r) ==
    IF r.kind = "tuple" THEN [raised |-> FALSE, value |-> r]
    ELSE IF r.kind = "object"
    THEN LET data == r.fields
             q == FirstNumeric(data, 1)
         IN  IF q # 0 THEN ScoreAndData(data[q].value, data) ELSE Unsupported
    ELSE Unsupported

unpack_drift_result(r) ==
    IF r.kind = "tuple" THEN [raised |-> FALSE, value |-> r]
    ELSE IF r.kind = "object"
    THEN LET data == r.fields
             p == FirstPreferred(data, 1)
             q == FirstNumeric(data, 1)
         IN  IF p # 0 THEN ScoreAndData(data[p].value, data)
             ELSE IF q # 0 THEN ScoreAndData(data[q].value, data)
             ELSE Unsupported
    ELSE Unsupported

\* the dict calculate_drift_score returns, as a Python value
CombinerDict(r) == [kind |-> "dict", entries |-> r]

\* patched_calculate_drift_score(expected, actual)
patched_calculate_drift_score(e, a) ==
    LET r == calculate_drift_score(e, a, NoWeights)
    IN  IF r.raised THEN r ELSE unpack_drift_result(CombinerDict(r))

\* a DriftReport as a Python value: the fields of the dataclass in order
ReportObject(report) ==
    [kind |-> "object",
     fields |-> <<[name |-> "timestamp", value |-> [type |-> "str"]],
                  [name |-> "feature_name", value |-> [type |-> "str"]],
                  [name |-> "drift_score",
                   value |-> [type |-> "float", v |-> report.drift_score]],
                  [name |-> "drift_level", value |-> [type |-> "str"]],
                  [name |-> "metrics", value |-> [type |-> "dict"]],
                  [name |-> "baseline_stats", value |-> [type |-> "dict"]],
                  [name |-> "current_stats", value |-> [type |-> "dict"]],
                  [name |-> "sample_sizes", value |-> [type |-> "dict"]]>>]

FieldNames == {PreferredKeys[k] : k \in DOMAIN PreferredKeys} \cup {"sample_size"}

FieldValues ==
    {[type |-> "int", v |-> 2], [type |-> "float", v |-> Scale \div 2],
     [type |-> "bool", v |-> 1], [type |-> "str"]}

\* the __dict__ of an object: up to MaxFields fields with different names
RECURSIVE FieldLists(_)
FieldLists(n) ==
    IF n = 0 THEN {<<>>}
    ELSE LET shorter == FieldLists(n - 1)
         IN  shorter \cup
             {Append(d, [name |-> nm, value |-> val]) :
                 d \in {x \in shorter : Len(x) = n - 1},
                 nm \in FieldNames, val \in FieldValues}

DistinctNames(d) == \A i, j \in DOMAIN d : d[i].name = d[j].name => i = j

\* the results handed to unpack_drift_result
DriftResults ==
    {[kind |-> "object", fields |-> d] : d \in {x \in FieldLists(MaxFields) : DistinctNames(x)}}
    \cup {[kind |-> "tuple", items |-> <<>>],
          [kind |-> "tuple",
           items |-> <<[type |-> "float", v |-> 0], [kind |-> "dict", entries |-> <<>>]>>],
          [kind |-> "none"],
          [kind |-> "float", v |-> Scale \div 4]}

\* the samples the endpoints score
AppPairs ==
    {<< <<0, 1>>, <<0, 1, 1>> >>,
     << <<0, 1>>, <<2>> >>,
     << <<>>, <<0, 1>> >>}

InitApp ==
    /\ \E pair \in AppPairs : expected = pair[1] /\ actual = pair[2]
    /\ call = NoCall
    /\ result = NoResult
    /\ IdleApp
    /\ IdleDetectors
    /\ IdleSubgroups
    /\ IdleConfidence

\* unpack_drift_result(r) for any result, the report of the PSI detector
\* and the dict of the combiner for the current samples among them
Unpack ==
    /\ call = NoCall
    /\ LET detected == PSIDetector_detect(detector_args.psi, expected, actual,
                                          DefaultFeatureName)
       IN  \E r \in DriftResults
                  \cup {CombinerDict(calculate_drift_score(expected, actual, NoWeights))}
                  \cup (IF detected.raised THEN {} ELSE {ReportObject(detected.report)}) :
               /\ call' = [fn |-> "unpack_drift_result", arg |-> r]
               /\ result' = unpack_drift_result(r)
    /\ UNCHANGED <<expected, actual, detectorVars, subgroupVars, confidenceVars, appVars>>

\* calculate_drift_score(expected, actual) as rebound in the HTTP module
PatchedCalculateDriftScore ==
    /\ call = NoCall
    /\ call' = [fn |-> "patched_calculate_drift_score"]
    /\ result' = patched_calculate_drift_score(expected, actual)
    /\ UNCHANGED <<expected, actual, detectorVars, subgroupVars, confidenceVars, appVars>>

NextApp == Unpack \/ PatchedCalculateDriftScore \/ Return

SpecApp == InitApp /\ [][NextApp]_vars

\* ------------------------------------------------------ the prediction log
\* The HTTP module keeps the predictions it has made in prediction_logs.
\* Each request is one step, taken where it reads or writes the log.  The
\* time stamp of an entry, a reading of the wall clock, is left out.

ADMIN_KEY == "silent-admin-123"

\* baseline.get(...): the baseline file is not part of the sources, the
\* values are the defaults of the three lookups
Baseline == [avg_confidence |-> 800000, amount_mean |-> 100, amount_std |-> 20]

\* round(x, 3) and round(x, 2) of a non-negative float
Round3(x) == ((x + 500) \div 1000) * 1000
Round2(x) == ((x + 5000) \div 10000) * 10000

\* check_input_drift(amount): the kind of warning, "None" for no warning
check_input_drift(amount) ==
    LET z_score == (Abs(amount - Baseline.amount_mean) * Scale) \div Baseline.amount_std
    IN  IF z_score > 3 * Scale THEN "EXTREME"
        ELSE IF z_score > 2 * Scale THEN "WARNING"
        ELSE "None"

\* the log entry predict builds from a request and the output of the model
LogEntry(req, out) ==
    [amount |-> req.amount,
     category |-> req.category,
     user_type |-> req.user_type,
     region |-> req.region,
     week |-> req.week,
     prediction |-> out.prediction,
     confidence |-> out.confidence,
     score |-> out.score,
     drift_warning |-> check_input_drift(req.amount)]

\* prediction_logs.append(log_entry)
LogAppend(logs, log_entry) == Append(logs, log_entry)

\* PredictResponse(...)
PredictResponse(log_entry) ==
    [raised |-> FALSE,
     prediction |-> log_entry.prediction,
     score |-> log_entry.score,
     confidence |-> log_entry.confidence,
     drift_warning |-> log_entry.drift_warning]

\* the answer of drift_status for the log it finds
drift_status(logs) ==
    IF Len(logs) = 0
    THEN [raised |-> FALSE,
          status |-> "WAITING_DATA",
          drift_score |-> 0,
          drift_level |-> "UNKNOWN",
          confidence_trend |-> "UNKNOWN",
          details |-> [message |-> "No predictions logged yet"]]
    ELSE LET n == Len(logs)
             baseline_conf == Baseline.avg_confidence
             current_conf == SeqSum([i \in DOMAIN logs |-> logs[i].confidence]) \div n
             current_amount_mean ==
                 (SeqSum([i \in DOMAIN logs |-> logs[i].amount]) * Scale) \div n
             conf_drift == Max2(0, baseline_conf - current_conf)
             amount_drift ==
                 Abs(current_amount_mean - Baseline.amount_mean * Scale)
                     \div Baseline.amount_std
             drift_score ==
                 Min2(Scale, (conf_drift * 3 + Min2(amount_drift \div 3, Scale) * 7) \div 10)
             level == IF drift_score < 200000 THEN <<"STABLE", "HEALTHY">>
                      ELSE IF drift_score < 400000
                      THEN <<"WARNING", "MONITORING_RECOMMENDED">>
                      ELSE IF drift_score < 600000
                      THEN <<"MODERATE", "ATTENTION_REQUIRED">>
                      ELSE <<"CRITICAL", "IMMEDIATE_ACTION">>
             confidence_trend ==
                 IF current_conf * 100 >= baseline_conf * 95 THEN "STABLE"
                 ELSE IF current_conf * 10 >= baseline_conf * 8 THEN "DECLINING"
                 ELSE "DEGRADED"
         IN  [raised |-> FALSE,
              status |-> level[2],
              drift_score |-> Round3(drift_score),
              drift_level |-> level[1],
              confidence_trend |-> confidence_trend,
              details |-> [baseline_confidence |-> Round3(baseline_conf),
                           current_confidence |-> Round3(current_conf),
                           baseline_amount_mean |-> Baseline.amount_mean * Scale,
                           current_amount_mean |-> Round2(current_amount_mean),
                           amount_z_score |-> Round2(amount_drift),
                           total_predictions |-> n]]

\* raise HTTPException(status_code=403, detail="Admin access denied")
AccessDenied == [raised |-> TRUE, status_code |-> 403, detail |-> "Admin access denied"]

\* variant: any key that is sent opens the endpoint
ClearLogsAnyKey(logs, x_admin_key) ==
    IF x_admin_key = "None"
    THEN [response |-> AccessDenied, prediction_logs |-> logs]
    ELSE [response |-> [raised |-> FALSE, status |-> "Logs cleared"],
          prediction_logs |-> <<>>]

\* clear_logs(x_admin_key): the response and the log it leaves
clear_logs(logs, x_admin_key) ==
    IF x_admin_key # ADMIN_KEY
    THEN [response |-> AccessDenied, prediction_logs |-> logs]
    ELSE [response |-> [raised |-> FALSE, status |-> "Logs cleared"],
          prediction_logs |-> <<>>]

\* admin_overview(x_admin_key), as far as it reads the log
admin_overview(logs, x_admin_key) ==
    IF x_admin_key # ADMIN_KEY THEN AccessDenied
    ELSE [raised |-> FALSE, total_predictions_logged |-> Len(logs)]

\* the requests sent to predict
Requests ==
    {[amount |-> 100, category |-> "A", user_type |-> "new", region |-> "north", week |-> 1],
     [amount |-> 150, category |-> "B", user_type |-> "old", region |-> "south", week |-> 2],
     [amount |-> 200, category |-> "C", user_type |-> "old", region |-> "north", week |-> 3]}

\* what the pretrained classifier answers: the class, the larger of the two
\* class probabilities and the probability of class 1
ModelOutputs ==
    {[prediction |-> 1, confidence |-> 900000, score |-> 900000],
     [prediction |-> 0, confidence |-> 600000, score |-> 400000]}

\* the x-admin-key header: the key, another key, or no header
AdminKeys == {ADMIN_KEY, "guess", "None"}

InitLogs ==
    /\ expected = <<>>
    /\ actual = <<>>
    /\ call = NoCall
    /\ result = NoResult
    /\ IdleDetectors
    /\ IdleSubgroups
    /\ IdleConfidence
    /\ prediction_logs = <<>>

Predict ==
    /\ call = NoCall
    /\ Len(prediction_logs) < MaxLogs
    /\ \E req \in Requests, out \in ModelOutputs :
          /\ call' = [fn |-> "predict", req |-> req]
          /\ prediction_logs' = LogAppend(prediction_logs, LogEntry(req, out))
          /\ result' = PredictResponse(LogEntry(req, out))
    /\ UNCHANGED <<expected, actual, detectorVars, subgroupVars, confidenceVars>>

DriftStatus ==
    /\ call = NoCall
    /\ call' = [fn |-> "drift_status"]
    /\ result' = drift_status(prediction_logs)
    /\ UNCHANGED <<expected, actual, detectorVars, subgroupVars, confidenceVars, appVars>>

ClearLogs ==
    /\ call = NoCall
    /\ \E x_admin_key \in AdminKeys :
          /\ call' = [fn |-> "clear_logs", x_admin_key |-> x_admin_key]
          /\ result' = clear_logs(prediction_logs, x_admin_key).response
          /\ prediction_logs' = clear_logs(prediction_logs, x_admin_key).prediction_logs
    /\ UNCHANGED <<expected, actual, detectorVars, subgroupVars, confidenceVars>>

AdminOverview ==
    /\ call = NoCall
    /\ \E x_admin_key \in AdminKeys :
          /\ call' = [fn |-> "admin_overview", x_admin_key |-> x_admin_key]
          /\ result' = admin_overview(prediction_logs, x_admin_key)
    /\ UNCHANGED <<expected, actual, detectorVars, subgroupVars, confidenceVars, appVars>>

NextLogs == Predict \/ DriftStatus \/ ClearLogs \/ AdminOverview \/ Return

SpecLogs == InitLogs /\ [][NextLogs]_vars

\* ================================================================ claims
BothNonEmpty == expected # <<>> /\ actual # <<>>
SomeEmpty == expected = <<>> \/ actual = <<>>
Returned(fn) == call.fn = fn /\ ~result.raised
Tenths(n) == (n * Scale) \div 10

Levels == {"STABLE", "WARNING", "MODERATE", "CRITICAL"}
Rank(level) ==
    CASE level = "STABLE" -> 0
      [] level = "WARNING" -> 1
      [] level = "MODERATE" -> 2
      [] level = "CRITICAL" -> 3
ScoreGrid == {(k * Scale) \div 20 : k \in 0..30}

\* C1 (as claimed): with the default weights and two non-empty samples the
\* drift_score returned by calculate_drift_score lies in [0, 1].
C1_DefaultScoreInUnitInterval ==
    (call.fn = "calculate_drift_score" /\ call.weights = NoWeights /\ BothNonEmpty)
        => /\ ~result.raised
           /\ result.drift_score >= 0
           /\ result.drift_score <= Scale

\* C2 (as claimed): for two non-empty samples the range-normalized value
\* reported by calculate_wasserstein lies in [0, 1].
C2_WassersteinNormalizedInUnitInterval ==
    (call.fn = "calculate_wasserstein" /\ BothNonEmpty)
        => /\ ~result.raised
           /\ result.details.normalized >= 0
           /\ result.details.normalized <= Scale

\* C3: the drift_level is decided by the combined score alone: STABLE below
\* 0.2, WARNING from 0.2 and below 0.4, MODERATE from 0.4 and below 0.6,
\* CRITICAL from 0.6; exactly one level is returned, and no higher score
\* gets a less severe level (nor a lower score a more severe one).
C3_DriftLevelThresholds ==
    Returned("calculate_drift_score") =>
        LET s == result.drift_score
            l == result.drift_level
        IN  /\ l \in Levels
            /\ (l = "STABLE") <=> (s < Tenths(2))
            /\ (l = "WARNING") <=> (Tenths(2) <= s /\ s < Tenths(4))
            /\ (l = "MODERATE") <=> (Tenths(4) <= s /\ s < Tenths(6))
            /\ (l = "CRITICAL") <=> (s >= Tenths(6))
            /\ \A t \in ScoreGrid :
                  /\ t >= s => Rank(_get_drift_level(t)) >= Rank(l)
                  /\ t <= s => Rank(_get_drift_level(t)) <= Rank(l)

\* C3 witness: a score exactly on the 0.2 threshold is reported WARNING
C3_Witness ==
    /\ Returned("calculate_drift_score")
    /\ result.drift_score = Tenths(2)
    /\ result.drift_level = "WARNING"

\* C4: drift_score is the weighted sum of the three normalized values that
\* the same result reports, under the default weights 0.4/0.3/0.3 when no
\* map is given and under the supplied map, as it is, otherwise.
C4_WeightedSum ==
    Returned("calculate_drift_score") =>
        LET w == IF call.weights = NoWeights
                 THEN [psi |-> 4, ks |-> 3, wasserstein |-> 3]
                 ELSE call.weights
            m == result.metrics
        IN  result.drift_score =
                (w.psi * m.psi.normalized + w.ks * m.ks_statistic.normalized
                    + w.wasserstein * m.wasserstein.normalized) \div 10

\* C4 witness: a supplied map that does not sum to 1 and whose score differs
\* from the score of the default weights
C4_Witness ==
    /\ Returned("calculate_drift_score")
    /\ call.weights # NoWeights
    /\ call.weights.psi + call.weights.ks + call.weights.wasserstein # 10
    /\ result.drift_score > 0
    /\ result.drift_score # calculate_drift_score(expected, actual, NoWeights).drift_score

\* C5: each metric function, given an empty baseline or an empty current
\* sample, returns 0.0 with a diagnostic holding an error entry, and does
\* not raise.
C5_EmptySampleResult ==
    (call.fn \in {"calculate_psi", "calculate_ks_statistic", "calculate_wasserstein"}
        /\ SomeEmpty)
        => /\ ~result.raised
           /\ result.value = 0
           /\ "error" \in DOMAIN result.details

\* C5 witness: the Wasserstein metric was called with an empty baseline and
\* a non-empty current sample
C5_Witness ==
    /\ call.fn = "calculate_wasserstein"
    /\ expected = <<>>
    /\ actual # <<>>
    /\ ~result.raised
    /\ result.value = 0

\* C6: the combiner reports psi_normalized = min(psi_value / 0.5, 1.0), a
\* value in [0, 1] for two non-empty samples: no bin contributes a negative
\* amount, so the raw PSI is never negative, and a raw PSI of 0.5 or more
\* is reported as exactly 1.0.
C6_PsiNormalized ==
    /\ (Returned("calculate_drift_score") /\ BothNonEmpty) =>
          LET m == result.metrics.psi
          IN  /\ m.normalized = Min2(2 * m.value, Scale)
              /\ m.normalized >= 0
              /\ m.normalized <= Scale
              /\ m.value >= 0
              /\ \A i \in DOMAIN m.details.bins : m.details.bins[i].psi_contribution >= 0
              /\ m.value >= Scale \div 2 => m.normalized = Scale
    /\ (Returned("calculate_psi") /\ BothNonEmpty) =>
          /\ result.value >= 0
          /\ \A i \in DOMAIN result.details.bins :
                result.details.bins[i].psi_contribution >= 0

\* C6 witness: a raw PSI strictly between 0 and 0.5, normalized strictly
\* between 0 and 1
C6_Witness ==
    /\ Returned("calculate_drift_score")
    /\ BothNonEmpty
    /\ result.metrics.psi.value > 0
    /\ result.metrics.psi.value < Scale \div 2
    /\ result.metrics.psi.normalized = 2 * result.metrics.psi.value

BaselineConstant == \A i, j \in DOMAIN expected : expected[i] = expected[j]

\* C7: when all baseline values are identical, calculate_wasserstein reports
\* a normalized value of 0 for every non-empty current sample and does not
\* raise, whatever the raw distance.
C7_DegenerateBaseline ==
    (call.fn = "calculate_wasserstein" /\ BothNonEmpty /\ BaselineConstant)
        => /\ ~result.raised
           /\ result.details.normalized = 0

\* C7 witness: a constant baseline at a positive raw distance of the current
\* sample
C7_Witness ==
    /\ Returned("calculate_wasserstein")
    /\ BothNonEmpty
    /\ BaselineConstant
    /\ result.value > 0
    /\ result.details.normalized = 0

\* C8 (as claimed): calculate_drift_score does not answer an empty baseline
\* or current sample with drift_score 0.0 and drift_level STABLE.
C8_EmptyNotReportedStable ==
    (call.fn = "calculate_drift_score" /\ SomeEmpty)
        => ~(/\ ~result.raised
             /\ result.drift_score = 0
             /\ result.drift_level = "STABLE")

\* C9: calculate_psi(B, B) is 0 for every non-empty B and every bin count:
\* the two histograms agree bin by bin, every bin contributes 0, and the
\* interpretation is the no-significant-change one.
C9_PsiOfSampleWithItself ==
    (call.fn = "calculate_psi" /\ expected = actual /\ expected # <<>>)
        => /\ ~result.raised
           /\ result.value = 0
           /\ result.details.total_psi = 0
           /\ Len(result.details.bins) = call.bins
           /\ \A i \in DOMAIN result.details.bins :
                 LET b == result.details.bins[i]
                 IN  b.expected_count = b.actual_count /\ b.psi_contribution = 0
           /\ result.details.interpretation = "No significant change"

\* C9 witness: PSI of a sample with itself whose values fall in several bins
C9_Witness ==
    /\ Returned("calculate_psi")
    /\ expected = actual
    /\ Cardinality({expected[i] : i \in DOMAIN expected}) > 1
    /\ call.bins > 1
    /\ result.value = 0

\* C10: the KS statistic of (B, C) equals the KS statistic of (C, B), the
\* largest absolute difference of the two empirical CDFs.
C10_KsSymmetric ==
    (Returned("calculate_ks_statistic") /\ BothNonEmpty)
        => /\ result.value = calculate_ks_statistic(actual, expected).value
           /\ result.value =
                 (SetMax({Abs(CdfDiff(expected, actual, x)) : x \in AllValues(expected, actual)})
                     * Scale) \div (Len(expected) * Len(actual))

\* C10 witness: two samples of different sizes whose CDFs differ, with the
\* current sample stochastically smaller somewhere
C10_Witness ==
    /\ Returned("calculate_ks_statistic")
    /\ BothNonEmpty
    /\ Len(expected) # Len(actual)
    /\ result.value > 0
    /\ result.value < Scale
    /\ \E x \in AllValues(expected, actual) : CdfDiff(expected, actual, x) < 0

\* normalized values to compare a result against: 0, 0.25, ..., 1.5
NormGrid == {(k * Scale) \div 4 : k \in 0..6}

\* C11: with the weights and the other two normalized metrics held fixed, a
\* larger normalized value of a metric of positive weight never gives a
\* smaller combined score, and so never a less severe level (and a smaller
\* value never a larger score or a more severe level).
C11_ScoreMonotone ==
    Returned("calculate_drift_score") =>
        LET w == IF call.weights = NoWeights
                 THEN [psi |-> 4, ks |-> 3, wasserstein |-> 3]
                 ELSE call.weights
            p == result.metrics.psi.normalized
            k == result.metrics.ks_statistic.normalized
            ws == result.metrics.wasserstein.normalized
            s == result.drift_score
            l == Rank(result.drift_level)
            Above(t) == t >= s /\ Rank(_get_drift_level(t)) >= l
            Below(t) == t <= s /\ Rank(_get_drift_level(t)) <= l
        IN  \A g \in NormGrid :
               /\ (w.psi > 0 /\ g >= p) => Above(CombinedScore(w, g, k, ws))
               /\ (w.psi > 0 /\ g <= p) => Below(CombinedScore(w, g, k, ws))
               /\ (w.ks > 0 /\ g >= k) => Above(CombinedScore(w, p, g, ws))
               /\ (w.ks > 0 /\ g <= k) => Below(CombinedScore(w, p, g, ws))
               /\ (w.wasserstein > 0 /\ g >= ws) => Above(CombinedScore(w, p, k, g))
               /\ (w.wasserstein > 0 /\ g <= ws) => Below(CombinedScore(w, p, k, g))

\* C11 witness: a larger Wasserstein value under a positive weight strictly
\* raises the score of a result and moves it to a more severe level
C11_Witness ==
    /\ Returned("calculate_drift_score")
    /\ call.weights # NoWeights
    /\ call.weights.wasserstein > 0
    /\ \E g \in NormGrid :
          /\ g > result.metrics.wasserstein.normalized
          /\ LET t == CombinedScore(call.weights, result.metrics.psi.normalized,
                                    result.metrics.ks_statistic.normalized, g)
             IN  /\ t > result.drift_score
                 /\ Rank(_get_drift_level(t)) > Rank(result.drift_level)

MetricFunctions ==
    {"calculate_psi", "calculate_ks_statistic", "calculate_wasserstein",
     "calculate_drift_score"}

DetectFn ==
    [psi |-> "PSIDetector.detect", ks |-> "KSDetector.detect",
     wasserstein |-> "WassersteinDetector.detect"]

DetectCalled == \E d \in Detectors : call.fn = DetectFn[d]

\* C17 (as claimed): a detect call with an empty baseline or current sample
\* returns a report with drift_score 0.0 whose metrics diagnostic carries
\* the error marker, and that report is the last entry of the history.
C17_EmptySampleReported ==
    \A d \in Detectors :
        (call.fn = DetectFn[d] /\ (call.baseline = <<>> \/ actual = <<>>))
            => /\ ~result.raised
               /\ result.report.drift_score = 0
               /\ "error" \in DOMAIN result.report.metrics[d]
               /\ history[d] # <<>>
               /\ history[d][Len(history[d])] = result.report

\* C18: a step changes a detector's history only when it is a detect call
\* of that detector that returns, and then by appending the returned report;
\* every other step, a raising detect call included, leaves it as it was.
C18_HistoryAppendOnly ==
    [][\A d \in Detectors :
          IF call = NoCall /\ call'.fn = DetectFn[d] /\ ~result'.raised
          THEN history'[d] = Append(history[d], result'.report)
          ELSE history'[d] = history[d]]_vars

\* C18 witness: the PSI detector has made two different reports, kept in
\* call order, while the KS detector's history is still empty
C18_Witness ==
    /\ Len(history.psi) = 2
    /\ history.psi[1] # history.psi[2]
    /\ history.ks = <<>>
    /\ call.fn = DetectFn.psi
    /\ result.report = history.psi[2]

\* C20: the level of a report follows from the fixed constants alone: PSI
\* below 0.1 STABLE, below 0.25 WARNING, else CRITICAL; normalized
\* Wasserstein distance below 0.1 STABLE, below 0.3 WARNING, else CRITICAL;
\* KS p-value below 0.01 CRITICAL, below 0.05 WARNING, else STABLE; whatever
\* threshold or alpha the detector was constructed with.
C20_FixedThresholds ==
    (DetectCalled /\ ~result.raised) =>
        LET r == result.report
            v == r.drift_score
        IN  /\ call.fn = DetectFn.psi =>
                  r.drift_level = IF v < Scale \div 10 THEN "STABLE"
                                  ELSE IF v < Scale \div 4 THEN "WARNING"
                                  ELSE "CRITICAL"
            /\ call.fn = DetectFn.wasserstein =>
                  r.drift_level = IF v < Scale \div 10 THEN "STABLE"
                                  ELSE IF 10 * v < 3 * Scale THEN "WARNING"
                                  ELSE "CRITICAL"
            /\ call.fn = DetectFn.ks =>
                  r.drift_level = IF r.metrics.ks.p_value < Scale \div 100 THEN "CRITICAL"
                                  ELSE IF r.metrics.ks.p_value < Scale \div 20 THEN "WARNING"
                                  ELSE "STABLE"

\* C20 witness: a PSI detector constructed with threshold 0.1 reports
\* WARNING for a PSI between 0.1 and 0.25
C20_Witness ==
    /\ call.fn = DetectFn.psi
    /\ ~result.raised
    /\ detector_args.psi = Scale \div 10
    /\ result.report.drift_score >= Scale \div 10
    /\ result.report.drift_score < Scale \div 4
    /\ result.report.drift_level = "WARNING"

\* the categories analyze_subgroups scores
Scored ==
    {c \in Categories : baseline_df[c] # <<>> /\ current_df[c] # <<>>}

\* the combiner's default-weight score of a category
CategoryScore ==
    [c \in Scored |->
        calculate_drift_score(baseline_df[c], current_df[c], NoWeights).drift_score]

\* C13: analyze_subgroups does not raise; a category with no observation on
\* one side is reported MISSING_DATA with both counts and no score, a
\* category present on both sides is ANALYZED with the combiner's score and
\* level, a category absent from both frames is not reported, and the
\* summary's average and maximum are those of the ANALYZED scores.
C13_SubgroupStatus ==
    call.fn = "analyze_subgroups" =>
        /\ ~result.raised
        /\ DOMAIN result.subgroups =
               {c \in Categories : baseline_df[c] # <<>> \/ current_df[c] # <<>>}
        /\ \A c \in DOMAIN result.subgroups :
              LET entry == result.subgroups[c]
              IN  IF c \in Scored
                  THEN /\ entry.status = "ANALYZED"
                       /\ entry.drift_score = CategoryScore[c]
                       /\ entry.drift_level = _get_drift_level(CategoryScore[c])
                  ELSE /\ entry.status = "MISSING_DATA"
                       /\ entry.baseline_count = Len(baseline_df[c])
                       /\ entry.current_count = Len(current_df[c])
                       /\ "drift_score" \notin DOMAIN entry
        /\ Scored # {} =>
              /\ result.summary.avg_drift_score * Cardinality(Scored)
                     <= SumOver(CategoryScore, Scored)
              /\ (result.summary.avg_drift_score + 1) * Cardinality(Scored)
                     > SumOver(CategoryScore, Scored)
              /\ result.summary.max_drift_score \in {CategoryScore[c] : c \in Scored}
              /\ \A c \in Scored : CategoryScore[c] <= result.summary.max_drift_score

\* C13 witness: one category has rows in the current frame only, the two
\* others are scored, with different scores
C13_Witness ==
    /\ call.fn = "analyze_subgroups"
    /\ Cardinality(Scored) = 2
    /\ \E c \in Categories : baseline_df[c] = <<>> /\ current_df[c] # <<>>
    /\ result.summary.avg_drift_score > 0
    /\ result.summary.avg_drift_score < result.summary.max_drift_score

\* the count the summary carries under a name, 0 when it carries none
SummaryCount(name) ==
    IF name \in DOMAIN result.summary THEN result.summary[name] ELSE 0

\* C14 (as claimed): the summary gives the number of categories present on
\* either side, the number scored, the mean and maximum score, and counts
\* of the scored categories per level that add up to the number scored.
C14_LevelCountsAddUp ==
    (call.fn = "analyze_subgroups" /\ Scored # {}) =>
        /\ result.summary.total_subgroups = Cardinality(DOMAIN result.subgroups)
        /\ result.summary.analyzed = Cardinality(Scored)
        /\ {"avg_drift_score", "max_drift_score"} \subseteq DOMAIN result.summary
        /\ SummaryCount("stable_count") + SummaryCount("warning_count")
               + SummaryCount("moderate_count") + SummaryCount("critical_count")
               = result.summary.analyzed

\* the number of entries of a list strictly below the configured threshold
BelowThreshold(data) ==
    Cardinality({i \in DOMAIN data : data[i] < confidence_threshold})

\* rate is the fraction count / n as a float
IsFraction(rate, count, n) ==
    /\ rate * n <= count * Scale
    /\ (rate + 1) * n > count * Scale

\* C15: with a non-empty baseline and a non-empty current list, analyze
\* returns the combiner's default-weight score and level for (baseline,
\* current), the fractions of the baseline and of the current values
\* strictly below the threshold, and their difference current - baseline.
C15_ConfidenceAnalysis ==
    (/\ call.fn = "ConfidenceAnalyzer.analyze"
     /\ baseline_confidences # <<>>
     /\ current_confidences # <<>>) =>
        LET a == result.analysis
            m == a.confidence_metrics
            combined == calculate_drift_score(baseline_confidences, current_confidences,
                                              [none |-> TRUE])
        IN  /\ ~result.raised
            /\ a.drift_score = combined.drift_score
            /\ a.drift_level = combined.drift_level
            /\ IsFraction(m.baseline_low_confidence_rate,
                          BelowThreshold(baseline_confidences),
                          Len(baseline_confidences))
            /\ IsFraction(m.low_confidence_rate,
                          BelowThreshold(current_confidences),
                          Len(current_confidences))
            /\ m.confidence_degradation =
                   m.low_confidence_rate - m.baseline_low_confidence_rate

\* C15 witness: the current list has a value equal to the threshold and a
\* larger share of low confidences than the baseline, and the two lists
\* are scored differently in the two orders
C15_Witness ==
    /\ call.fn = "ConfidenceAnalyzer.analyze"
    /\ baseline_confidences # <<>>
    /\ \E i \in DOMAIN current_confidences :
          current_confidences[i] = confidence_threshold
    /\ result.analysis.confidence_metrics.confidence_degradation > 0
    /\ result.analysis.confidence_metrics.baseline_low_confidence_rate > 0
    /\ result.analysis.drift_score #
           calculate_drift_score(current_confidences, baseline_confidences,
                                 [none |-> TRUE]).drift_score

\* the place of a field name in the order metric_value, value, drift_score,
\* statistic, distance, psi, score; 0 for any other name
KeyRank(name) ==
    IF \E k \in 1..7 : PreferredKeys[k] = name
    THEN CHOOSE k \in 1..7 : PreferredKeys[k] = name
    ELSE 0

\* C16: unpack_drift_result returns a tuple unchanged; for an object it
\* returns (float(v), fields) where v is the numeric field whose name comes
\* first in the preferred order or, when no preferred name holds a number
\* (an int, a float or, as Python has it, a bool), the first numeric field;
\* with no numeric field, and for a value that is neither a tuple nor an
\* object, it raises ValueError; it never returns None.
C16_UnpackResult ==
    call.fn = "unpack_drift_result" =>
        LET r == call.arg
        IN  /\ r.kind = "tuple" => (~result.raised /\ result.value = r)
            /\ r.kind = "object" =>
                  LET data == r.fields
                      Numeric == {i \in DOMAIN data :
                                     data[i].value.type \in {"int", "float", "bool"}}
                      Named == {i \in Numeric : KeyRank(data[i].name) # 0}
                      chosen ==
                          IF Named # {}
                          THEN CHOOSE i \in Named : \A j \in Named :
                                   KeyRank(data[i].name) <= KeyRank(data[j].name)
                          ELSE CHOOSE i \in Numeric : \A j \in Numeric : i <= j
                      v == data[chosen].value
                  IN  IF Numeric = {}
                      THEN result.raised /\ result.error = "ValueError"
                      ELSE /\ ~result.raised
                           /\ result.value.kind = "tuple"
                           /\ Len(result.value.items) = 2
                           /\ result.value.items[1].type = "float"
                           /\ result.value.items[1].v =
                                  IF v.type = "float" THEN v.v ELSE v.v * Scale
                           /\ result.value.items[2].entries = data
            /\ r.kind \notin {"tuple", "object"} =>
                  (result.raised /\ result.error = "ValueError")
            /\ result.raised \/ result.value.kind # "none"

\* C16 witness: an object whose second field has a preferred name that
\* comes before the name of its first field, both holding numbers; the
\* integer of the second field is returned as a float
C16_Witness ==
    /\ call.fn = "unpack_drift_result"
    /\ call.arg.kind = "object"
    /\ Len(call.arg.fields) = 2
    /\ KeyRank(call.arg.fields[1].name) > KeyRank(call.arg.fields[2].name)
    /\ KeyRank(call.arg.fields[2].name) > 0
    /\ call.arg.fields[1].value.type = "float"
    /\ call.arg.fields[2].value.type = "int"
    /\ ~result.raised
    /\ result.value.items[1] =
           [type |-> "float", v |-> call.arg.fields[2].value.v * Scale]

\* C19 (as claimed): when calculate_drift_score returns normally for the
\* samples, the rebound combiner returns a (score, details) pair.
C19_PatchedCombinerReturnsPair ==
    (/\ call.fn = "patched_calculate_drift_score"
     /\ ~calculate_drift_score(expected, actual, [none |-> TRUE]).raised) =>
        /\ ~result.raised
        /\ result.value.kind = "tuple"
        /\ Len(result.value.items) = 2

AnalyzeCalled == call = NoCall /\ call'.fn = "ConfidenceAnalyzer.analyze"

\* C21: an analyze call does not raise, leaves both stored lists as they
\* were, and returns the "Insufficient data for analysis" error result
\* exactly when the stored baseline or the stored current list is empty;
\* with both non-empty it returns a scored analysis.
C21_InsufficientData ==
    [][AnalyzeCalled =>
          /\ ~result'.raised
          /\ baseline_confidences' = baseline_confidences
          /\ current_confidences' = current_confidences
          /\ (result'.analysis = [error |-> "Insufficient data for analysis"])
                 <=> (baseline_confidences = <<>> \/ current_confidences = <<>>)
          /\ (baseline_confidences # <<>> /\ current_confidences # <<>>)
                 => {"drift_score", "drift_level"} \subseteq DOMAIN result'.analysis]_vars

\* C21 witness: analyze after set_baseline alone: a baseline is stored, no
\* prediction has been added, and the error result is returned
C21_Witness ==
    /\ call.fn = "ConfidenceAnalyzer.analyze"
    /\ baseline_confidences # <<>>
    /\ current_confidences = <<>>
    /\ ~result.raised
    /\ result.analysis = [error |-> "Insufficient data for analysis"]

\* a step of one of the list methods: no metric, detector or analyze call
\* starts or returns
ListMethodStep == call = NoCall /\ call' = NoCall

\* C22 (as claimed): every step of a list method is an add_predictions that
\* appends its batch to the current list and leaves the baseline unchanged,
\* a reset_current that empties the current list and leaves the baseline
\* unchanged, or a set_baseline that leaves the current list unchanged; none
\* changes the threshold, and analyze on an empty current list reports
\* insufficient data.
C22_ListMethodFrames ==
    [][/\ ListMethodStep =>
             /\ confidence_threshold' = confidence_threshold
             /\ \/ /\ \E batch \in ConfidenceLists :
                         current_confidences' = current_confidences \o batch
                   /\ baseline_confidences' = baseline_confidences
                \/ /\ current_confidences' = <<>>
                   /\ baseline_confidences' = baseline_confidences
                \/ current_confidences' = current_confidences
       /\ (AnalyzeCalled /\ current_confidences = <<>>) =>
             result'.analysis = [error |-> "Insufficient data for analysis"]]_vars

\* a request to the endpoint fn is answered in this step
Answered(fn) == call = NoCall /\ call'.fn = fn

\* C23: a step changes the prediction log only if it is a predict call or
\* a clear_logs call with the admin key; predict appends one entry, that of
\* its request; clear_logs with the admin key empties the log, with any
\* other key or none it fails with 403 "Admin access denied" and leaves the
\* log as it was; drift_status leaves the log as it was and answers
\* WAITING_DATA, and drift_level UNKNOWN, exactly when the log is empty.
C23_PredictionLog ==
    [][/\ prediction_logs' # prediction_logs =>
             \/ Answered("predict")
             \/ Answered("clear_logs") /\ call'.x_admin_key = "silent-admin-123"
       /\ Answered("predict") =>
             /\ ~result'.raised
             /\ Len(prediction_logs') = Len(prediction_logs) + 1
             /\ SubSeq(prediction_logs', 1, Len(prediction_logs)) = prediction_logs
             /\ prediction_logs'[Len(prediction_logs')].amount = call'.req.amount
       /\ Answered("clear_logs") =>
             IF call'.x_admin_key = "silent-admin-123"
             THEN ~result'.raised /\ prediction_logs' = <<>>
             ELSE /\ result'.raised
                  /\ result'.status_code = 403
                  /\ result'.detail = "Admin access denied"
                  /\ prediction_logs' = prediction_logs
       /\ Answered("drift_status") =>
             /\ prediction_logs' = prediction_logs
             /\ ~result'.raised
             /\ result'.status = "WAITING_DATA" <=> prediction_logs = <<>>
             /\ result'.drift_level = "UNKNOWN" <=> prediction_logs = <<>>]_vars

\* C23 witness: clear_logs with a key that is not the admin key has been
\* refused with 403 and the two logged predictions are still there
C23_Witness ==
    /\ call.fn = "clear_logs"
    /\ call.x_admin_key = "guess"
    /\ result.raised
    /\ result.status_code = 403
    /\ Len(prediction_logs) = 2
    /\ prediction_logs[1] # prediction_logs[2]
====
